---- MODULE Spec2Model ----
(***************************************************************************)
(* Model of the Amazon sales EDA repository:                               *)
(*   - generate_amazon_data.py : generate_amazon_sales_data / save_data    *)
(*   - app.py                  : the Streamlit dashboard script            *)
(*                                                                         *)
(* Money is fixed point.  A drawn price is an integer number of mills      *)
(* (1/1000 rupee); stored, rounded amounts are integer numbers of paise    *)
(* (1/100 rupee), which is what round(x, 2) keeps.  A datetime is the      *)
(* number of days since 1970-01-01; a '%Y-%m-%d' string is the triple      *)
(* <<year, month, day>> it spells.                                         *)
(***************************************************************************)
EXTENDS Integers, Sequences, FiniteSets, TLC

VARIABLES
    \* ---- generate_amazon_data.py ----
    n_records,      \* argument of generate_amazon_sales_data
    i,              \* loop counter of `for i in range(n_records)`
    data,           \* the list of record dicts
    df_gen,         \* the DataFrame built from data (columns and rows)
    gen_pc,         \* "loop", "returned" or the exception that ended the call
    \* ---- app.py ----
    dataset,        \* the rows save_data writes to amazon_sales_data.csv
    file_exists,    \* whether amazon_sales_data.csv is present
    cache,          \* the st.cache_data entry of load_data()
    reads,          \* number of executions of the body of load_data
    ran,            \* the session has run the script at least once
    widgets,        \* the values of the sidebar widgets and of the checkbox
    filtered_df,    \* filtered_df of the last script run
    page            \* what the last script run rendered

gen_vars == <<n_records, i, data, df_gen, gen_pc>>

app_vars == <<dataset, file_exists, cache, reads, ran, widgets, filtered_df, page>>

vars == <<n_records, i, data, df_gen, gen_pc,
          dataset, file_exists, cache, reads, ran, widgets, filtered_df, page>>

(***************************************************************************)
(* Bounds of the exploration.                                              *)
(***************************************************************************)
MaxN == 2            \* largest n_records explored
MaxPriceMills == 9   \* drawn prices are range low + 0..MaxPriceMills mills
MaxRows == 2         \* largest dataset the dashboard is run on
MaxDay == 2          \* order dates and date pickers span start_date + 0..MaxDay

(***************************************************************************)
(* generate_amazon_data.py : the fixed tables                              *)
(***************************************************************************)
category_names ==
    <<"Electronics", "Clothing", "Books", "Home & Kitchen", "Sports & Outdoors">>

categories ==
    [c \in {category_names[k] : k \in 1..Len(category_names)} |->
        CASE c = "Electronics" ->
                {"Smartphones", "Laptops", "Headphones", "Tablets", "Cameras", "Smart Watches"}
          [] c = "Clothing" ->
                {"Men's Fashion", "Women's Fashion", "Kids' Fashion", "Shoes", "Accessories"}
          [] c = "Books" ->
                {"Fiction", "Non-Fiction", "Educational", "Children's Books", "Comics"}
          [] c = "Home & Kitchen" ->
                {"Furniture", "Kitchen Appliances", "Decor", "Bedding", "Cookware"}
          [] OTHER ->
                {"Fitness Equipment", "Camping Gear", "Sports Apparel", "Outdoor Recreation"}]

payment_methods ==
    {"Credit Card", "Debit Card", "UPI", "Net Banking", "Cash on Delivery", "Amazon Pay"}

customer_segments == {"New", "Regular", "Prime", "Premium"}

cities ==
    {"Mumbai", "Delhi", "Bangalore", "Chennai", "Kolkata", "Pune", "Hyderabad", "Ahmedabad"}

discount_choices == {0, 5, 10, 15, 20, 25, 30}

rating_choices == {1, 2, 3, 4, 5}

review_length_choices == {"Short", "Medium", "Long"}

delivery_status_choices == {"On Time", "Delayed", "Early"}

return_status_choices == {"No", "Yes"}

quantity_choices == 1..5          \* np.random.randint(1, 6)

delivery_days_choices == 1..10    \* np.random.randint(1, 11)

MaxDayOffset == 365               \* random.randint(0, 365), both ends included

\* low end, in rupees, of the uniform price range of a category (the draws
\* explored lie within MaxPriceMills mills of it)
price_low(category) ==
    CASE category = "Electronics" -> 500
      [] category = "Clothing" -> 200
      [] category = "Books" -> 100
      [] category = "Home & Kitchen" -> 300
      [] OTHER -> 500

\* the profit factor np.random.uniform(0.2, 0.4), in tenths
margin_choices == {2, 3, 4}

(***************************************************************************)
(* Calendar arithmetic of datetime / timedelta / strftime / to_datetime    *)
(* (proleptic Gregorian calendar, days counted from 1970-01-01).           *)
(***************************************************************************)
\* date(y, m, d) -> days since 1970-01-01
DaysFromCivil(y, m, d) ==
    LET yy  == IF m <= 2 THEN y - 1 ELSE y
        era == yy \div 400
        yoe == yy - era * 400
        mp  == IF m > 2 THEN m - 3 ELSE m + 9
        doy == (153 * mp + 2) \div 5 + d - 1
        doe == yoe * 365 + yoe \div 4 - yoe \div 100 + doy
    IN  era * 146097 + doe - 719468

\* days since 1970-01-01 -> <<year, month, day>>
CivilFromDays(z) ==
    LET zz  == z + 719468
        era == zz \div 146097
        doe == zz - era * 146097
        yoe == (doe - doe \div 1460 + doe \div 36524 - doe \div 146096) \div 365
        doy == doe - (365 * yoe + yoe \div 4 - yoe \div 100)
        mp  == (5 * doy + 2) \div 153
        d   == doy - (153 * mp + 2) \div 5 + 1
        m   == IF mp < 10 THEN mp + 3 ELSE mp - 9
        y   == yoe + era * 400
    IN  <<IF m <= 2 THEN y + 1 ELSE y, m, d>>

\* start_date = datetime(2023, 1, 1)
start_date == DaysFromCivil(2023, 1, 1)

\* order_date = start_date + timedelta(days=random.randint(0, 365))
order_date_of(day_offset) == start_date + day_offset

\* variant: the delivery date counted from the day before the order
delivery_date_off_by_one(order_date, delivery_days) == order_date + delivery_days - 1

\* delivery_date = order_date + timedelta(days=delivery_days)
delivery_date_of(order_date, delivery_days) == order_date + delivery_days

\* datetime.strftime('%Y-%m-%d')
strftime(date) == CivilFromDays(date)

\* pd.to_datetime of a '%Y-%m-%d' string
to_datetime(s) == DaysFromCivil(s[1], s[2], s[3])

\* .dt.month
dt_month(s) == CivilFromDays(to_datetime(s))[2]

\* variant: weekday index with Sunday = 0
dt_dayofweek_sunday0(s) == (to_datetime(s) + 4) % 7

\* .dt.dayofweek : Monday = 0 .. Sunday = 6 (1970-01-01 was a Thursday)
dt_dayofweek(s) == (to_datetime(s) + 3) % 7

\* .dt.quarter
dt_quarter(s) == (dt_month(s) - 1) \div 3 + 1

day_names ==
    [k \in 0..6 |->
        CASE k = 0 -> "Monday" [] k = 1 -> "Tuesday" [] k = 2 -> "Wednesday"
          [] k = 3 -> "Thursday" [] k = 4 -> "Friday" [] k = 5 -> "Saturday"
          [] OTHER -> "Sunday"]

(***************************************************************************)
(* Money                                                                   *)
(***************************************************************************)
\* round(num / den) to the nearest integer, a value exactly half way going
\* to the even neighbour as Python's round() does
RoundHalfEven(num, den) ==
    LET q == num \div den
        r == num % den
    IN  IF 2 * r < den THEN q
        ELSE IF 2 * r > den THEN q + 1
        ELSE IF q % 2 = 0 THEN q ELSE q + 1

\* discount_amount = (price * quantity * discount_percent) / 100,
\* as a number of 1/100000 rupee (price in mills)
discount_amount_of(price, quantity, discount_percent) ==
    price * quantity * discount_percent

\* variant: the discount of one unit taken off the price of the whole quantity
final_price_unit_discount(price, quantity, discount_percent) ==
    (price * quantity * 100) - discount_amount_of(price, 1, discount_percent)

\* final_price = (price * quantity) - discount_amount, in 1/100000 rupee
final_price_of(price, quantity, discount_percent) ==
    (price * quantity * 100) - discount_amount_of(price, quantity, discount_percent)

\* profit_margin = final_price * np.random.uniform(0.2, 0.4), in 1/1000000 rupee
profit_margin_of(final_price, margin) == final_price * margin

(***************************************************************************)
(* One iteration of the loop: the record dict built from the draws.        *)
(***************************************************************************)
record_of(idx, dr) ==
    LET order_date    == order_date_of(dr.day_offset)
        delivery_date == delivery_date_of(order_date, dr.delivery_days)
        final_price   == final_price_of(dr.price, dr.quantity, dr.discount_percent)
    IN  [ Order_ID         |-> 10000 + idx,
          Order_Date       |-> strftime(order_date),
          Delivery_Date    |-> strftime(delivery_date),
          Category         |-> dr.category,
          Subcategory      |-> dr.subcategory,
          Product_Price    |-> RoundHalfEven(dr.price, 10),
          Quantity         |-> dr.quantity,
          Discount_Percent |-> dr.discount_percent,
          Discount_Amount  |-> RoundHalfEven(
                                 discount_amount_of(dr.price, dr.quantity, dr.discount_percent),
                                 1000),
          Final_Price      |-> RoundHalfEven(final_price, 1000),
          Payment_Method   |-> dr.payment_method,
          Customer_Segment |-> dr.customer_segment,
          City             |-> dr.city,
          Customer_Rating  |-> dr.rating,
          Review_Length    |-> dr.review_length,
          Delivery_Days    |-> dr.delivery_days,
          Delivery_Status  |-> dr.delivery_status,
          Returned         |-> dr.return_status,
          Profit_Margin    |-> RoundHalfEven(profit_margin_of(final_price, dr.margin), 10000) ]

record_columns ==
    { "Order_ID", "Order_Date", "Delivery_Date", "Category", "Subcategory",
      "Product_Price", "Quantity", "Discount_Percent", "Discount_Amount",
      "Final_Price", "Payment_Method", "Customer_Segment", "City",
      "Customer_Rating", "Review_Length", "Delivery_Days", "Delivery_Status",
      "Returned", "Profit_Margin" }

derived_columns == {"Order_Month", "Order_DayOfWeek", "Order_Quarter", "Order_DayName"}

\* a row of the returned DataFrame: the record and its derived columns
with_derived(rec) ==
    [ Order_ID         |-> rec.Order_ID,
      Order_Date       |-> rec.Order_Date,
      Delivery_Date    |-> rec.Delivery_Date,
      Category         |-> rec.Category,
      Subcategory      |-> rec.Subcategory,
      Product_Price    |-> rec.Product_Price,
      Quantity         |-> rec.Quantity,
      Discount_Percent |-> rec.Discount_Percent,
      Discount_Amount  |-> rec.Discount_Amount,
      Final_Price      |-> rec.Final_Price,
      Payment_Method   |-> rec.Payment_Method,
      Customer_Segment |-> rec.Customer_Segment,
      City             |-> rec.City,
      Customer_Rating  |-> rec.Customer_Rating,
      Review_Length    |-> rec.Review_Length,
      Delivery_Days    |-> rec.Delivery_Days,
      Delivery_Status  |-> rec.Delivery_Status,
      Returned         |-> rec.Returned,
      Profit_Margin    |-> rec.Profit_Margin,
      Order_Month      |-> dt_month(rec.Order_Date),
      Order_DayOfWeek  |-> dt_dayofweek(rec.Order_Date),
      Order_Quarter    |-> dt_quarter(rec.Order_Date),
      Order_DayName    |-> day_names[dt_dayofweek(rec.Order_Date)] ]

\* pd.DataFrame(data): the columns are the keys of the dicts, so an empty
\* list gives a frame without columns
DataFrame(d) ==
    [ columns |-> IF Len(d) = 0 THEN {} ELSE record_columns,
      rows    |-> d ]

(***************************************************************************)
(* The draws of one iteration.  A call for a single record explores the    *)
(* full range of every draw, one group of draws at a time around a base    *)
(* draw; calls for several records explore a sample of the ranges.         *)
(***************************************************************************)
base_draw ==
    [ category |-> "Books", subcategory |-> "Fiction",
      price |-> price_low("Books") * 1000 + 4, quantity |-> 5,
      discount_percent |-> 10, rating |-> 4, review_length |-> "Medium",
      delivery_days |-> 3, delivery_status |-> "On Time", return_status |-> "No",
      customer_segment |-> "Prime", payment_method |-> "UPI", city |-> "Mumbai",
      day_offset |-> 1, margin |-> 3 ]

date_draws ==
    { [base_draw EXCEPT !.day_offset = o, !.delivery_days = dd] :
        o \in 0..MaxDayOffset, dd \in delivery_days_choices }

price_draws ==
    { [base_draw EXCEPT !.category = c,
                        !.subcategory = CHOOSE s \in categories[c] : TRUE,
                        !.price = price_low(c) * 1000 + off,
                        !.quantity = q, !.discount_percent = dp] :
        c \in DOMAIN categories, off \in 0..MaxPriceMills,
        q \in quantity_choices, dp \in discount_choices }

label_draws ==
    { [base_draw EXCEPT !.category = c, !.subcategory = s] :
        c \in DOMAIN categories, s \in UNION {categories[x] : x \in DOMAIN categories} }
    \cup { [base_draw EXCEPT !.rating = r, !.review_length = rl, !.margin = mg] :
        r \in rating_choices, rl \in review_length_choices, mg \in margin_choices }
    \cup { [base_draw EXCEPT !.delivery_status = ds, !.return_status = rs] :
        ds \in delivery_status_choices, rs \in return_status_choices }
    \cup { [base_draw EXCEPT !.customer_segment = cs, !.payment_method = pm, !.city = ci] :
        cs \in customer_segments, pm \in payment_methods, ci \in cities }

sample_draws ==
    { [base_draw EXCEPT !.day_offset = o, !.quantity = q,
                        !.discount_percent = dp, !.price = price_low("Books") * 1000 + off] :
        o \in {0, 1, MaxDayOffset}, q \in {1, 5}, dp \in {0, 30}, off \in {0, 4} }

Draws(n) ==
    IF n = 1
    THEN { dr \in date_draws \cup price_draws \cup label_draws :
             dr.subcategory \in categories[dr.category] }
    ELSE sample_draws

(***************************************************************************)
(* generate_amazon_sales_data                                              *)
(***************************************************************************)
\* one iteration of `for i in range(n_records)`
LoopIteration ==
    /\ gen_pc = "loop"
    /\ i < n_records
    /\ \E dr \in Draws(n_records) :
          data' = Append(data, record_of(i, dr))
    /\ i' = i + 1
    /\ UNCHANGED <<n_records, df_gen, gen_pc>>
    /\ UNCHANGED app_vars

\* the frame is created and the derived columns are added; df['Order_Date']
\* raises KeyError when the frame has no such column
BuildFrame ==
    /\ gen_pc = "loop"
    /\ i = n_records
    /\ LET frame == DataFrame(data)
       IN  IF "Order_Date" \notin frame.columns
           THEN /\ gen_pc' = "KeyError"
                /\ UNCHANGED df_gen
           ELSE /\ gen_pc' = "returned"
                /\ df_gen' = [ columns |-> frame.columns \cup derived_columns,
                               rows    |-> [k \in 1..Len(frame.rows) |->
                                              with_derived(frame.rows[k])] ]
    /\ UNCHANGED <<n_records, i, data>>
    /\ UNCHANGED app_vars

(***************************************************************************)
(* app.py : the dataset file                                               *)
(*                                                                         *)
(* The file holds the rows written by save_data.  The dashboard is run on  *)
(* files of 1..MaxRows rows drawn from six rows that differ in category,   *)
(* city, segment and order date; the other columns vary with the row.      *)
(* Only the columns app.py reads are kept.                                 *)
(***************************************************************************)
file_row(order_id, k) ==
    LET order_date == order_date_of(k % (MaxDay + 1))
        days       == 1 + (k % 3)
        final      == 10050 * (k + 1)
    IN  [ Order_ID         |-> order_id,
          Order_Date       |-> strftime(order_date),
          Delivery_Date    |-> strftime(delivery_date_of(order_date, days)),
          Category         |-> IF k % 2 = 0 THEN "Electronics" ELSE "Books",
          City             |-> IF (k \div 2) % 2 = 0 THEN "Mumbai" ELSE "Delhi",
          Customer_Segment |-> IF (k \div 4) % 2 = 0 THEN "Prime" ELSE "New",
          Final_Price      |-> final,
          Customer_Rating  |-> 3 + ((k * 2) % 3),
          Payment_Method   |-> IF k % 3 = 0 THEN "UPI"
                               ELSE IF k % 3 = 1 THEN "Credit Card" ELSE "Amazon Pay",
          Delivery_Days    |-> days,
          Delivery_Status  |-> IF k % 4 = 1 THEN "Delayed" ELSE "On Time",
          Returned         |-> IF k % 4 = 3 THEN "Yes" ELSE "No",
          Profit_Margin    |-> (final * (4 - (k % 3))) \div 10 ]

\* the six rows are taken in a fixed order: the views of a file with the
\* same rows in another order are the same views, rows permuted
Datasets ==
    UNION { { [j \in 1..n |-> file_row(10000 + j - 1, ks[j])] :
                ks \in { x \in [1..n -> 0..5] :
                           \A a, b \in 1..n : a < b => x[a] <= x[b] } } :
            n \in 1..MaxRows }

\* the alphabetical order pandas sorts group keys and modes in
sorted_labels ==
    << "Amazon Pay", "Books", "Credit Card", "Delhi", "Electronics",
       "Mumbai", "New", "Prime", "UPI" >>

label_rank(x) == CHOOSE p \in 1..Len(sorted_labels) : sorted_labels[p] = x

(***************************************************************************)
(* app.py : load_data                                                      *)
(***************************************************************************)
\* the value load_data returns when the file is missing
None == [found |-> FALSE, rows |-> <<>>]

\* a row as load_data returns it: both date columns parsed by pd.to_datetime
parse_row(r) ==
    [r EXCEPT !.Order_Date = to_datetime(r.Order_Date),
              !.Delivery_Date = to_datetime(r.Delivery_Date)]

\* the body of load_data: pd.read_csv and the two to_datetime conversions,
\* or None after FileNotFoundError
load_data_body ==
    IF file_exists
    THEN [found |-> TRUE, rows |-> [j \in 1..Len(dataset) |-> parse_row(dataset[j])]]
    ELSE None

\* variant: load_data without the @st.cache_data decorator
load_data_uncached == load_data_body

\* @st.cache_data: the body runs on a miss only, and whatever it returned
\* (None included) is what every later call returns
load_data == IF cache.hit THEN cache.value ELSE load_data_body

(***************************************************************************)
(* app.py : the sidebar                                                    *)
(***************************************************************************)
unique(df, col) == {df[j][col] : j \in 1..Len(df)}

min_date(df) ==
    CHOOSE d \in unique(df, "Order_Date") : \A e \in unique(df, "Order_Date") : d <= e

max_date(df) ==
    CHOOSE d \in unique(df, "Order_Date") : \A e \in unique(df, "Order_Date") : e <= d

\* the value of every widget before the user has touched it
default_widgets(df) ==
    [ selected_category |-> "All",
      selected_city     |-> "All",
      selected_segment  |-> "All",
      start_date        |-> min_date(df),
      end_date          |-> max_date(df),
      show_raw          |-> FALSE ]

\* the dates a date picker can be set to
PickerDates == {order_date_of(o) : o \in 0..MaxDay}

(***************************************************************************)
(* app.py : the filters, in the order the script applies them              *)
(***************************************************************************)
by_category(f, c) == SelectSeq(f, LAMBDA r : r.Category = c)

\* variant: only the first row of the city is kept
by_city_first_only(f, c) ==
    LET m == SelectSeq(f, LAMBDA r : r.City = c)
    IN  SubSeq(m, 1, IF Len(m) < 1 THEN Len(m) ELSE 1)

by_city(f, c) == SelectSeq(f, LAMBDA r : r.City = c)

by_segment(f, s) == SelectSeq(f, LAMBDA r : r.Customer_Segment = s)

\* variant: the end date excluded
by_date_end_exclusive(f, s, e) ==
    SelectSeq(f, LAMBDA r : r.Order_Date >= s /\ r.Order_Date < e)

by_date(f, s, e) == SelectSeq(f, LAMBDA r : r.Order_Date >= s /\ r.Order_Date <= e)

category_filter(f, w) ==
    IF w.selected_category # "All" THEN by_category(f, w.selected_category) ELSE f

city_filter(f, w) ==
    IF w.selected_city # "All" THEN by_city(f, w.selected_city) ELSE f

segment_filter(f, w) ==
    IF w.selected_segment # "All" THEN by_segment(f, w.selected_segment) ELSE f

date_filter(f, w) == by_date(f, w.start_date, w.end_date)

apply_filters(df, w) ==
    date_filter(segment_filter(city_filter(category_filter(df, w), w), w), w)

(***************************************************************************)
(* app.py : the pandas aggregations the views use.  A mean is kept as the  *)
(* fraction num/den; den = 0 is the nan a mean over no rows gives.         *)
(***************************************************************************)
RECURSIVE series_sum(_, _)
series_sum(f, col) ==
    IF f = <<>> THEN 0 ELSE Head(f)[col] + series_sum(Tail(f), col)

series_mean(f, col) == [num |-> series_sum(f, col), den |-> Len(f)]

\* (f[col] == v).mean()
flag_mean(f, col, v) ==
    [num |-> Len(SelectSeq(f, LAMBDA r : r[col] = v)), den |-> Len(f)]

\* variant: every group given the sum of the whole column
groupby_sum_ungrouped(f, key, col) ==
    [g \in unique(f, key) |-> series_sum(f, col)]

groupby_sum(f, key, col) ==
    [g \in unique(f, key) |-> series_sum(SelectSeq(f, LAMBDA r : r[key] = g), col)]

groupby_mean(f, key, col) ==
    [g \in unique(f, key) |-> series_mean(SelectSeq(f, LAMBDA r : r[key] = g), col)]

value_counts(f, col) ==
    [v \in unique(f, col) |-> Len(SelectSeq(f, LAMBDA r : r[col] = v))]

\* Series.idxmax() of a series of numbers: the first label, in key order,
\* that carries the largest value
idxmax(s) ==
    CHOOSE g \in DOMAIN s :
        /\ \A h \in DOMAIN s : s[h] <= s[g]
        /\ \A h \in DOMAIN s : s[h] = s[g] => label_rank(g) <= label_rank(h)

\* Series.idxmax() of a series of means
idxmax_mean(s) ==
    CHOOSE g \in DOMAIN s :
        /\ \A h \in DOMAIN s : s[h].num * s[g].den <= s[g].num * s[h].den
        /\ \A h \in DOMAIN s :
              s[h].num * s[g].den = s[g].num * s[h].den => label_rank(g) <= label_rank(h)

\* Series.idxmax() raises ValueError on a series without entries
idxmax_raises(s) == DOMAIN s = {}

\* DataFrame.head(n)
head(f, n) == SubSeq(f, 1, IF Len(f) < n THEN Len(f) ELSE n)

preview_rows == 100

(***************************************************************************)
(* app.py : the views                                                      *)
(***************************************************************************)
\* the five st.metric tiles
key_metrics(f) ==
    [ total_sales     |-> series_sum(f, "Final_Price"),
      avg_order_value |-> series_mean(f, "Final_Price"),
      total_orders    |-> Len(f),
      avg_rating      |-> series_mean(f, "Customer_Rating"),
      return_rate     |-> flag_mean(f, "Returned", "Yes") ]

\* the series behind the charts of the five tabs (the charts on the columns
\* Subcategory, Discount_Percent, Order_Month and Order_DayName are further
\* group-bys of the same frame and are not kept)
numeric_cols(r) ==
    [ Final_Price     |-> r.Final_Price,
      Customer_Rating |-> r.Customer_Rating,
      Delivery_Days   |-> r.Delivery_Days,
      Profit_Margin   |-> r.Profit_Margin ]

tab_charts(f) ==
    [ category_sales  |-> groupby_sum(f, "Category", "Final_Price"),
      payment_dist    |-> value_counts(f, "Payment_Method"),
      daily_sales     |-> groupby_sum(f, "Order_Date", "Final_Price"),
      avg_rating_cat  |-> groupby_mean(f, "Category", "Customer_Rating"),
      segment_sales   |-> groupby_sum(f, "Customer_Segment", "Final_Price"),
      city_sales      |-> groupby_sum(f, "City", "Final_Price"),
      rating_dist     |-> value_counts(f, "Customer_Rating"),
      delivery_status |-> value_counts(f, "Delivery_Status"),
      avg_delivery    |-> groupby_mean(f, "Category", "Delivery_Days"),
      corr_input      |-> [j \in 1..Len(f) |-> numeric_cols(f[j])] ]

\* the six lines of the Key Insights section
key_insights(f) ==
    [ best_selling    |-> idxmax(groupby_sum(f, "Category", "Final_Price")),
      most_profitable |-> idxmax(groupby_sum(f, "Category", "Profit_Margin")),
      best_rated      |-> idxmax_mean(groupby_mean(f, "Category", "Customer_Rating")),
      avg_delivery    |-> series_mean(f, "Delivery_Days"),
      on_time_rate    |-> flag_mean(f, "Delivery_Status", "On Time"),
      popular_payment |-> idxmax(value_counts(f, "Payment_Method")) ]

\* the first statement of the Key Insights section that raises, if any
insights_exception(f) ==
    IF idxmax_raises(groupby_sum(f, "Category", "Final_Price"))
    THEN "ValueError" ELSE "none"

(***************************************************************************)
(* app.py : what one run of the script renders.  A view is <<value>> when  *)
(* rendered and <<>> when not.                                             *)
(***************************************************************************)
blank_page ==
    [ title |-> FALSE, messages |-> 0, sidebar |-> FALSE,
      kpis |-> <<>>, tabs |-> <<>>, preview |-> <<>>, export |-> <<>>,
      insights |-> <<>>, footer |-> FALSE, exception |-> "none" ]

\* variant: load_data without the except clause, the exception ends the run
missing_page_uncaught ==
    [blank_page EXCEPT !.title = TRUE, !.exception = "FileNotFoundError"]

\* df is None: the message of load_data (replayed with the cached value),
\* the message of the else branch, and the footer
missing_page ==
    [blank_page EXCEPT !.title = TRUE, !.messages = 2, !.footer = TRUE]

\* df is not None: views is the frame the views are computed from
dashboard_page(views, w) ==
    LET exc == insights_exception(views)
    IN  [ title     |-> TRUE,
          messages  |-> 0,
          sidebar   |-> TRUE,
          kpis      |-> <<key_metrics(views)>>,
          tabs      |-> <<tab_charts(views)>>,
          preview   |-> IF w.show_raw THEN <<head(views, preview_rows)>> ELSE <<>>,
          export    |-> IF w.show_raw THEN <<views>> ELSE <<>>,
          insights  |-> IF exc = "none" THEN <<key_insights(views)>> ELSE <<>>,
          footer    |-> exc = "none",
          exception |-> exc ]

\* variant: the views computed from df instead of filtered_df
script_body_unfiltered(df, w) ==
    LET f == apply_filters(df, w)
    IN  [filtered |-> <<f>>, page |-> dashboard_page(df, w)]

\* the `if df is not None:` branch: filter, then render from filtered_df
script_body(df, w) ==
    LET f == apply_filters(df, w)
    IN  [filtered |-> <<f>>, page |-> dashboard_page(f, w)]

(***************************************************************************)
(* app.py : one run of the script with widget values w                     *)
(***************************************************************************)
RunScript(w) ==
    LET df == load_data
        wv == IF ran THEN w ELSE default_widgets(df.rows)
        out == script_body(df.rows, wv)
    IN  /\ cache' = [hit |-> TRUE, value |-> df]
        /\ reads' = IF cache.hit THEN reads ELSE reads + 1
        /\ ran' = TRUE
        /\ IF df.found
           THEN /\ widgets' = wv
                /\ filtered_df' = out.filtered
                /\ page' = out.page
           ELSE /\ widgets' = w
                /\ filtered_df' = <<>>
                /\ page' = missing_page
        /\ UNCHANGED <<dataset, file_exists>>
        /\ UNCHANGED gen_vars

\* the state of the widgets before the sidebar has been rendered
no_widgets ==
    [ selected_category |-> "All", selected_city |-> "All",
      selected_segment |-> "All", start_date |-> start_date,
      end_date |-> start_date, show_raw |-> FALSE ]

AppIdle ==
    /\ cache = [hit |-> FALSE, value |-> None]
    /\ reads = 0
    /\ ran = FALSE
    /\ widgets = no_widgets
    /\ filtered_df = <<>>
    /\ page = blank_page

AppInit ==
    /\ dataset \in Datasets
    /\ file_exists \in BOOLEAN
    /\ AppIdle

\* the browser opens the page: first run of the script
OpenSession ==
    /\ ~ran
    /\ RunScript(widgets)

\* the user reruns the page without touching a widget
Rerun ==
    /\ ran
    /\ RunScript(widgets)

SelectCategory ==
    /\ ran /\ page.sidebar
    /\ \E c \in {"All"} \cup unique(cache.value.rows, "Category") :
          /\ c # widgets.selected_category
          /\ RunScript([widgets EXCEPT !.selected_category = c])

SelectCity ==
    /\ ran /\ page.sidebar
    /\ \E c \in {"All"} \cup unique(cache.value.rows, "City") :
          /\ c # widgets.selected_city
          /\ RunScript([widgets EXCEPT !.selected_city = c])

SelectSegment ==
    /\ ran /\ page.sidebar
    /\ \E s \in {"All"} \cup unique(cache.value.rows, "Customer_Segment") :
          /\ s # widgets.selected_segment
          /\ RunScript([widgets EXCEPT !.selected_segment = s])

SetStartDate ==
    /\ ran /\ page.sidebar
    /\ \E d \in PickerDates :
          /\ d # widgets.start_date
          /\ RunScript([widgets EXCEPT !.start_date = d])

SetEndDate ==
    /\ ran /\ page.sidebar
    /\ \E d \in PickerDates :
          /\ d # widgets.end_date
          /\ RunScript([widgets EXCEPT !.end_date = d])

ToggleShowRaw ==
    /\ ran /\ page.sidebar
    /\ RunScript([widgets EXCEPT !.show_raw = ~widgets.show_raw])

\* generate_amazon_data.py is run: save_data writes the file
SaveData ==
    /\ ~file_exists
    /\ file_exists' = TRUE
    /\ UNCHANGED <<dataset, cache, reads, ran, widgets, filtered_df, page>>
    /\ UNCHANGED gen_vars

(***************************************************************************)
(* Specifications                                                          *)
(***************************************************************************)
GenIdle ==
    /\ n_records = 0
    /\ i = 0
    /\ data = <<>>
    /\ df_gen = [columns |-> {}, rows |-> <<>>]
    /\ gen_pc = "idle"

\* the dashboard
Init == AppInit /\ GenIdle

Next ==
    \/ OpenSession
    \/ Rerun
    \/ SelectCategory
    \/ SelectCity
    \/ SelectSegment
    \/ SetStartDate
    \/ SetEndDate
    \/ ToggleShowRaw
    \/ SaveData

Spec == Init /\ [][Next]_vars

\* the generator
GenInit ==
    /\ n_records \in 0..MaxN
    /\ i = 0
    /\ data = <<>>
    /\ df_gen = [columns |-> {}, rows |-> <<>>]
    /\ gen_pc = "loop"
    /\ dataset = <<>>
    /\ file_exists = FALSE
    /\ AppIdle

GenNext == LoopIteration \/ BuildFrame

SpecGen == GenInit /\ [][GenNext]_vars

(***************************************************************************)
(* Properties of the dashboard (specification Spec)                        *)
(***************************************************************************)
\* the base frame of the session: what load_data returned
base_df == cache.value.rows

loaded == ran /\ cache.value.found

\* the filter specification as a predicate on one record
matches(r, w) ==
    /\ (w.selected_category = "All" \/ r.Category = w.selected_category)
    /\ (w.selected_city = "All" \/ r.City = w.selected_city)
    /\ (w.selected_segment = "All" \/ r.Customer_Segment = w.selected_segment)
    /\ w.start_date <= r.Order_Date
    /\ r.Order_Date <= w.end_date

\* the records of the base frame the current filter specification selects
current_set == SelectSeq(base_df, LAMBDA r : matches(r, widgets))

\* C1: the filtered set is exactly the base records that satisfy every
\* non-'All' field filter and whose order date lies in [start, end], both
\* bounds included; nothing else is kept and no matching record is dropped.
C1_FilterExact ==
    loaded => filtered_df = <<current_set>>

\* C1 witness: all three field filters set, on a range that starts and ends
\* on order dates of kept records, with some record kept and some dropped.
C1_Witness ==
    /\ loaded
    /\ widgets.selected_category # "All"
    /\ widgets.selected_city # "All"
    /\ widgets.selected_segment # "All"
    /\ filtered_df # <<>>
    /\ Len(filtered_df[1]) >= 1
    /\ Len(filtered_df[1]) < Len(base_df)
    /\ \E j \in 1..Len(filtered_df[1]) : filtered_df[1][j].Order_Date = widgets.end_date
    /\ \E j \in 1..Len(filtered_df[1]) : filtered_df[1][j].Order_Date = widgets.start_date

\* C2 (as claimed): with start date later than end date the filtered set is
\* empty and every view, the textual insights included, is rendered in its
\* 'no data' form without any exception.
C2_EmptyRangeNoError ==
    (loaded /\ widgets.start_date > widgets.end_date) =>
        /\ filtered_df = << <<>> >>
        /\ page.kpis # <<>>
        /\ page.tabs # <<>>
        /\ page.insights # <<>>
        /\ page.exception = "none"

\* C3 (as claimed): with the file absent at load time the run shows the
\* instructional message and renders nothing else.
C3_OnlyMessage ==
    (ran /\ ~cache.value.found) =>
        /\ page.messages >= 1
        /\ ~page.title
        /\ ~page.footer
        /\ ~page.sidebar
        /\ page.kpis = <<>> /\ page.tabs = <<>> /\ page.preview = <<>>
        /\ page.export = <<>> /\ page.insights = <<>>
        /\ page.exception = "none"

\* C3 (amended): with the file absent at load time the run shows the
\* instructional message between the page title and the footer and nothing
\* of the dashboard (no filter control, KPI, chart, preview, export or
\* insight), computes no filtered set, and ends without an exception.
C3_MissingFile ==
    (ran /\ ~cache.value.found) =>
        /\ page.messages >= 1
        /\ page.title
        /\ page.footer
        /\ ~page.sidebar
        /\ page.kpis = <<>> /\ page.tabs = <<>> /\ page.preview = <<>>
        /\ page.export = <<>> /\ page.insights = <<>>
        /\ filtered_df = <<>>
        /\ page.exception = "none"

\* C3 witness: a run that found no file, shown again after the file appeared.
C3_Witness ==
    /\ ran
    /\ ~cache.value.found
    /\ reads = 1
    /\ file_exists
    /\ page.messages >= 1

\* the four filter steps of the script
filter_step(name, f, w) ==
    CASE name = "category" -> category_filter(f, w)
      [] name = "city" -> city_filter(f, w)
      [] name = "segment" -> segment_filter(f, w)
      [] OTHER -> date_filter(f, w)

RECURSIVE filter_in_order(_, _, _)
filter_in_order(order, f, w) ==
    IF order = <<>> THEN f
    ELSE filter_in_order(Tail(order), filter_step(Head(order), f, w), w)

filter_orders ==
    { o \in [1..4 -> {"category", "city", "segment", "date"}] :
        \A a, b \in 1..4 : a # b => o[a] # o[b] }

\* C7: the filters commute: applying the category, city, segment and
\* date-range filters in any of the 24 orders yields the same records.
C7_FilterCommutes ==
    loaded =>
        \A o \in filter_orders :
            filter_in_order(o, base_df, widgets) =
                filter_in_order(<<"city", "category", "date", "segment">>, base_df, widgets)

\* C7 witness: a category and a city are selected, and each of the two
\* filters alone keeps a different, non-empty part of the base frame.
C7_Witness ==
    /\ loaded
    /\ widgets.selected_category # "All"
    /\ widgets.selected_city # "All"
    /\ category_filter(base_df, widgets) # city_filter(base_df, widgets)
    /\ category_filter(base_df, widgets) # <<>>
    /\ city_filter(base_df, widgets) # <<>>
    /\ Len(city_filter(category_filter(base_df, widgets), widgets)) >= 1
    /\ Len(city_filter(category_filter(base_df, widgets), widgets)) < Len(base_df)

\* C8: after any sequence of filter changes every view shown is the one
\* computed from the records the current filter specification selects,
\* never from the base frame or from an earlier selection.
C8_ViewsOfCurrentFilter ==
    loaded =>
        /\ page.kpis = <<key_metrics(current_set)>>
        /\ page.tabs = <<tab_charts(current_set)>>
        /\ (widgets.show_raw <=> page.preview # <<>>)
        /\ (page.preview # <<>> => page.preview = <<head(current_set, preview_rows)>>)
        /\ (page.export # <<>> => page.export = <<current_set>>)
        /\ (page.insights # <<>> => page.insights = <<key_insights(current_set)>>)

\* C8 witness: the filters have been changed, the selection is a proper,
\* non-empty part of the base frame, and every view is on the page.
C8_Witness ==
    /\ loaded
    /\ widgets.selected_category # "All"
    /\ widgets.start_date # min_date(base_df)
    /\ Len(current_set) >= 1
    /\ Len(current_set) < Len(base_df)
    /\ page.kpis # <<>>
    /\ page.preview # <<>>
    /\ page.insights # <<>>

\* C9 (as claimed): a run renders all the aggregate views or none: no page
\* has some views rendered and a later view of the same run failed.
C9_AllOrNothing ==
    ran => ~(page.kpis # <<>> /\ page.insights = <<>> /\ page.exception # "none")

\* no filter applied: every selector on 'All' and the date pickers on the
\* first and last order date of the base frame
no_filter ==
    /\ widgets.selected_category = "All"
    /\ widgets.selected_city = "All"
    /\ widgets.selected_segment = "All"
    /\ widgets.start_date = min_date(base_df)
    /\ widgets.end_date = max_date(base_df)

\* the sum of the entries of a series whose labels are keys
RECURSIVE sum_of(_, _)
sum_of(s, keys) ==
    IF keys = {} THEN 0
    ELSE LET k == CHOOSE x \in keys : TRUE
         IN  s[k] + sum_of(s, keys \ {k})

\* C11: partition consistency: with no filter applied, the per-category
\* Final_Price sums of the 'Sales by Category' view add up to the
\* 'Total Sales' KPI, and the category groups together count every record
\* of the dataset exactly once.
C11_PartitionConsistency ==
    (loaded /\ no_filter) =>
        LET sales  == page.tabs[1].category_sales
            groups == page.tabs[1].avg_rating_cat
            sizes  == [c \in DOMAIN groups |-> groups[c].den]
        IN  /\ sum_of(sales, DOMAIN sales) = page.kpis[1].total_sales
            /\ DOMAIN sales = unique(base_df, "Category")
            /\ sum_of(sizes, DOMAIN sizes) = Len(base_df)
            /\ page.kpis[1].total_orders = Len(base_df)

\* C11 witness: an unfiltered run on a dataset with records of two
\* categories, each category carrying part of the total.
C11_Witness ==
    /\ loaded
    /\ no_filter
    /\ Cardinality(DOMAIN page.tabs[1].category_sales) = 2
    /\ \A c \in DOMAIN page.tabs[1].category_sales :
          /\ page.tabs[1].category_sales[c] > 0
          /\ page.tabs[1].category_sales[c] < page.kpis[1].total_sales

\* C12: within one process the body of load_data runs once, on the first
\* script run; from then on no interaction runs it again, and every later
\* run gets the load result of the first one from the cache, whatever has
\* happened to the file since.
C12_LoadedOnce ==
    /\ [](ran => (cache.hit /\ reads = 1))
    /\ [][cache.hit => (cache' = cache /\ reads' = reads)]_vars
    /\ [][ran' => (cache'.hit /\ (page'.sidebar <=> cache'.value.found))]_vars

\* C12 witness: after three interactions on a loaded dataset the file has
\* still been read once.
C12_Witness ==
    /\ loaded
    /\ reads = 1
    /\ widgets.selected_city # "All"
    /\ widgets.show_raw
    /\ widgets.end_date # max_date(base_df)

(***************************************************************************)
(* Properties of the generator (specification SpecGen)                     *)
(***************************************************************************)
\* C4 (as claimed): for every N >= 0 the call returns a table of exactly N
\* rows that has every required column, with a value in every row.
C4_RowsAndColumns ==
    gen_pc # "loop" =>
        /\ gen_pc = "returned"
        /\ Len(df_gen.rows) = n_records
        /\ (record_columns \cup derived_columns) \subseteq df_gen.columns
        /\ \A k \in 1..Len(df_gen.rows) :
              DOMAIN df_gen.rows[k] = record_columns \cup derived_columns

\* Final_Price recomputed from the stored fields of a record, times 100
stored_final_x100(rec) ==
    rec.Product_Price * rec.Quantity * (100 - rec.Discount_Percent)

abs(x) == IF x < 0 THEN 0 - x ELSE x

\* C5 (as claimed): the stored Final_Price equals Product_Price * Quantity
\* minus Product_Price * Quantity * Discount_Percent / 100 computed from the
\* stored fields, and is >= 0.
C5_ExactFromStored ==
    \A k \in 1..Len(data) :
        /\ 100 * data[k].Final_Price = stored_final_x100(data[k])
        /\ data[k].Final_Price >= 0

\* C5 (amended): the stored Final_Price is price * quantity minus
\* price * quantity * Discount_Percent / 100 rounded to 2 decimals, for a
\* price that rounds to the stored Product_Price; the value recomputed
\* from the stored fields differs from it by at most 0.005 * (Quantity + 1);
\* and Final_Price >= 0.
C5_RoundedFinalPrice ==
    \A k \in 1..Len(data) :
        /\ \E p \in (10 * data[k].Product_Price - 5)..(10 * data[k].Product_Price + 5) :
              /\ RoundHalfEven(p, 10) = data[k].Product_Price
              /\ data[k].Final_Price =
                   RoundHalfEven(
                     (p * data[k].Quantity * 100) - (p * data[k].Quantity * data[k].Discount_Percent),
                     1000)
        /\ 2 * abs(100 * data[k].Final_Price - stored_final_x100(data[k]))
              <= 100 * (data[k].Quantity + 1)
        /\ data[k].Final_Price >= 0

\* C5 witness: a returned record with a discount and a quantity of five
\* whose Final_Price differs from the value recomputed from its stored fields.
C5_Witness ==
    /\ gen_pc = "returned"
    /\ \E k \in 1..Len(data) :
          /\ data[k].Discount_Percent > 0
          /\ data[k].Quantity = 5
          /\ 100 * data[k].Final_Price # stored_final_x100(data[k])

\* number of days of a month of the Gregorian calendar
days_in_month(y, m) ==
    IF m = 2
    THEN (IF (y % 4 = 0 /\ y % 100 # 0) \/ y % 400 = 0 THEN 29 ELSE 28)
    ELSE IF m \in {4, 6, 9, 11} THEN 30 ELSE 31

\* the calendar day after <<y, m, d>>
next_day(c) ==
    IF c[3] < days_in_month(c[1], c[2]) THEN <<c[1], c[2], c[3] + 1>>
    ELSE IF c[2] < 12 THEN <<c[1], c[2] + 1, 1>>
    ELSE <<c[1] + 1, 1, 1>>

RECURSIVE plus_days(_, _)
plus_days(c, n) == IF n = 0 THEN c ELSE plus_days(next_day(c), n - 1)

\* <<y, m, d>> is not after <<y2, m2, d2>>
civil_le(a, b) ==
    \/ a[1] < b[1]
    \/ (a[1] = b[1] /\ a[2] < b[2])
    \/ (a[1] = b[1] /\ a[2] = b[2] /\ a[3] <= b[3])

\* the day of the year of a date, 1 for January 1st
RECURSIVE day_of_year(_)
day_of_year(c) ==
    IF c[2] = 1 THEN c[3]
    ELSE days_in_month(c[1], c[2] - 1) + day_of_year(<<c[1], c[2] - 1, c[3]>>)

\* C6: Delivery_Date is Order_Date plus Delivery_Days calendar days, hence
\* not before it; Order_Date is 0 to 365 days after 2023-01-01 and
\* Delivery_Days is in 1..10.
C6_DeliveryDate ==
    \A k \in 1..Len(data) :
        /\ data[k].Delivery_Days \in 1..10
        /\ data[k].Delivery_Date = plus_days(data[k].Order_Date, data[k].Delivery_Days)
        /\ civil_le(data[k].Order_Date, data[k].Delivery_Date)
        /\ \/ /\ data[k].Order_Date[1] = 2023
              /\ data[k].Order_Date[2] \in 1..12
              /\ data[k].Order_Date[3] \in 1..days_in_month(2023, data[k].Order_Date[2])
           \/ data[k].Order_Date = <<2024, 1, 1>>

\* C6 witness: a returned record ordered late in December 2023 and
\* delivered ten days later, in January 2024.
C6_Witness ==
    /\ gen_pc = "returned"
    /\ \E k \in 1..Len(data) :
          /\ data[k].Order_Date = <<2023, 12, 25>>
          /\ data[k].Delivery_Days = 10
          /\ data[k].Delivery_Date = <<2024, 1, 4>>

\* the weekday index of a date of 2023 or of 2024-01-01, counted from
\* Monday 2023-01-02
weekday_from_anchor(c) ==
    (IF c[1] = 2023 THEN day_of_year(c) + 5 ELSE 365 + day_of_year(c) + 5) % 7

weekday_name(k) ==
    <<"Monday", "Tuesday", "Wednesday", "Thursday", "Friday", "Saturday", "Sunday">>[k + 1]

\* C10: the derived columns are functions of Order_Date alone: rows with
\* the same Order_Date have the same derived values; the weekday index runs
\* from 0 = Monday to 6 = Sunday and Order_DayName names it; 2023-01-02
\* gives 'Monday', month 1, quarter 1.
C10_DerivedFromOrderDate ==
    /\ \A k \in 1..Len(df_gen.rows) :
          LET r == df_gen.rows[k]
          IN  /\ r.Order_Month = r.Order_Date[2]
              /\ r.Order_Quarter = (CASE r.Order_Date[2] \in 1..3 -> 1
                                      [] r.Order_Date[2] \in 4..6 -> 2
                                      [] r.Order_Date[2] \in 7..9 -> 3
                                      [] OTHER -> 4)
              /\ r.Order_DayOfWeek = weekday_from_anchor(r.Order_Date)
              /\ r.Order_DayName = weekday_name(r.Order_DayOfWeek)
              /\ (r.Order_Date = <<2023, 1, 2>> =>
                    /\ r.Order_DayName = "Monday"
                    /\ r.Order_Month = 1
                    /\ r.Order_Quarter = 1)
    /\ \A k, m \in 1..Len(df_gen.rows) :
          df_gen.rows[k].Order_Date = df_gen.rows[m].Order_Date =>
              /\ df_gen.rows[k].Order_Month = df_gen.rows[m].Order_Month
              /\ df_gen.rows[k].Order_DayOfWeek = df_gen.rows[m].Order_DayOfWeek
              /\ df_gen.rows[k].Order_Quarter = df_gen.rows[m].Order_Quarter
              /\ df_gen.rows[k].Order_DayName = df_gen.rows[m].Order_DayName

\* C10 witness: two different returned rows ordered on 2023-01-02, both
\* with the derived values of that Monday.
C10_Witness ==
    /\ gen_pc = "returned"
    /\ Len(df_gen.rows) >= 2
    /\ df_gen.rows[1].Order_Date = <<2023, 1, 2>>
    /\ df_gen.rows[2].Order_Date = <<2023, 1, 2>>
    /\ df_gen.rows[1].Final_Price # df_gen.rows[2].Final_Price
    /\ df_gen.rows[2].Order_DayName = "Monday"
    /\ df_gen.rows[2].Order_DayOfWeek = 0

====
